---- MODULE Spec2Model ----
(***************************************************************************)
(* Model of the autoregressive generation procedure of                     *)
(* notebooks/GPT_model_inference.ipynb: top_k_logits and sample.           *)
(*                                                                         *)
(* One call of sample(model, x, steps, temperature, sample, top_k) is a    *)
(* state machine whose program counter pc walks through the statements of  *)
(* the loop body.  The model (the next-token predictor) is external: each  *)
(* query returns some score vector out of PredictorOutputs.                *)
(*                                                                         *)
(* Numbers.  Scores are floats in the code.  Here a finite score is an     *)
(* integer and the three IEEE specials are the sentinels NegInf, PosInf    *)
(* and NaN, placed so that the integer order of the encodings is the       *)
(* order torch.topk sorts by (NaN greatest).  exp is taken to base 2, so   *)
(* a probability is a natural numerator over the common denominator that   *)
(* is the sum of the numerators; rounding of floats is not modelled.       *)
(***************************************************************************)
EXTENDS Integers, Sequences, FiniteSets

\* ------------------------------------------------------------------ bounds
VocabSize == 3
MaxSteps == 2

\* ------------------------------------------------------- IEEE special values
NegInf == -99
PosInf == 99
NaN == 100

IsNaN(a) == a = NaN
IsFinite(a) == a # NaN /\ a # PosInf /\ a # NegInf
\* a < b on floats: false as soon as one side is NaN
Less(a, b) == ~IsNaN(a) /\ ~IsNaN(b) /\ a < b

\* ------------------------------------------------------------------ inputs
\* finite raw scores (even, so that every modelled division is exact)
ScoreVals == {0, 2, 4}
Temperatures == {-1, 0, 1, 2}
\* top_k: <<>> is None, <<n>> is the integer n
TopKs == {<<>>} \cup {<<n>> : n \in 0..(VocabSize + 1)}
StepCounts == -1..MaxSteps
\* model.get_block_size()
BlockSizes == {1, 2, 3}
Seeds == {<<1>>, <<2, 0>>}

ConstVec(n, v) == [i \in 1..n |-> v]
\* what model.target_layer(model.local_forward(...).local_hidden)[:, -1, :]
\* can be: a vector of VocabSize finite scores, or a malformed one (all
\* negative infinity, or of the wrong length)
PredictorOutputs ==
    [1..VocabSize -> ScoreVals]
        \cup {ConstVec(VocabSize, NegInf), ConstVec(VocabSize + 1, 0)}

VARIABLES
    seed,         \* the x the call was given
    steps,
    temperature,
    sample,
    top_k,
    block_size,   \* the local block_size = model.get_block_size() - 1
    x,            \* the growing sequence
    k,            \* the loop counter
    x_cond,       \* the cropped context
    raw,          \* the predictor's scores for the final position
    scaled,       \* raw / temperature: the tensor handed to top_k_logits
    logits,       \* the logits after the optional top-k crop
    probs,        \* F.softmax(logits)
    ix,           \* the chosen token, <<>> before the choice
    pc,           \* position in sample
    queries,      \* number of forward calls made so far (history)
    top_k_twin,   \* the top_k of a second call with the same other arguments
    x_twin        \* the sequence of that second call (SpecTwin only)

vars == <<seed, steps, temperature, sample, top_k, block_size, x, k, x_cond,
          raw, scaled, logits, probs, ix, pc, queries, top_k_twin, x_twin>>

\* what no statement of one call of sample assigns
config == <<seed, steps, temperature, sample, top_k, block_size, top_k_twin,
            x_twin>>

\* --------------------------------------------------------- pure functions

\* a crop that keeps the head of the sequence, x[:, :block_size]
CropContextHead(s, bs) ==
    IF Len(s) <= bs THEN s ELSE SubSeq(s, 1, bs)

\* x if x.size(1) <= block_size else x[:, -block_size:]
\* (for block_size = 0 the slice x[:, -0:] is the whole of x)
CropContext(s, bs) ==
    IF Len(s) <= bs THEN s
    ELSE IF bs = 0 THEN s
    ELSE SubSeq(s, Len(s) - bs + 1, Len(s))

\* one score divided by the temperature, as floats divide
DivT(s, t) ==
    IF IsNaN(s) THEN NaN
    ELSE IF t = 0
        THEN IF s = 0 THEN NaN ELSE IF s > 0 THEN PosInf ELSE NegInf
    ELSE IF s = PosInf \/ s = NegInf
        THEN IF t > 0 THEN s ELSE -s
    ELSE IF t > 0 THEN s \div t ELSE -(s \div (-t))

\* logits / temperature
Scale(v, t) == [i \in 1..Len(v) |-> DivT(v[i], t)]

Max(S) == CHOOSE m \in S : \A n \in S : n <= m

RECURSIVE SortDesc(_, _)
\* the values of v at the indices I, largest first (NaN sorts first)
SortDesc(v, I) ==
    IF I = {} THEN <<>>
    ELSE LET i == CHOOSE j \in I : \A l \in I : v[l] <= v[j]
         IN <<v[i]>> \o SortDesc(v, I \ {i})

\* v of torch.topk(logits, k): the k largest values, sorted
TopKValues(v, n) == SubSeq(SortDesc(v, 1..Len(v)), 1, n)

\* a crop that also drops the entries equal to the k-th largest (out <= v)
TopKLogitsDropTies(v, n) ==
    LET vk == TopKValues(v, n)[n]
    IN [i \in 1..Len(v) |->
          IF Less(v[i], vk) \/ v[i] = vk THEN NegInf ELSE v[i]]

\* top_k_logits(logits, k), for 1 <= k <= len(logits)
TopKLogits(v, n) ==
    LET vk == TopKValues(v, n)[n]
    IN [i \in 1..Len(v) |-> IF Less(v[i], vk) THEN NegInf ELSE v[i]]

\* torch.topk(logits, k) raises for k > len, and v[:, [-1]] for k = 0
TopKFails(v, n) == n < 1 \/ n > Len(v)

RECURSIVE Pow2(_)
Pow2(n) == IF n <= 0 THEN 1 ELSE 2 * Pow2(n - 1)

\* F.softmax(logits, dim=-1): NaN everywhere when the maximum is not finite
\* (a NaN or +inf entry, or all entries -inf), else exp(z - max) / sum
Softmax(v) ==
    LET m == Max({v[i] : i \in 1..Len(v)})
        fin == {v[i] : i \in 1..Len(v)} \ {NegInf}
        lo == CHOOSE a \in fin : \A b \in fin : a <= b
    IN IF ~IsFinite(m) THEN [i \in 1..Len(v) |-> NaN]
       ELSE [i \in 1..Len(v) |-> IF v[i] = NegInf THEN 0 ELSE Pow2(v[i] - lo)]

HasNaN(p) == \E i \in 1..Len(p) : IsNaN(p[i])

\* the indices torch.topk(probs, k=1) may return: one of a largest entry
\* (NaN counts as largest); which one among equal entries is not specified
ArgTopK1(p) == {i \in 1..Len(p) : \A j \in 1..Len(p) : p[j] <= p[i]}

\* torch.multinomial(probs, 1) raises on a NaN entry
MultinomialFails(p) == HasNaN(p)

\* a draw that may also hit an entry of probability zero
MultinomialAnyIndex(p) == {i \in 1..Len(p) : p[i] >= 0}

\* the indices torch.multinomial(probs, 1) may draw
MultinomialSupport(p) == {i \in 1..Len(p) : p[i] > 0}

\* ------------------------------------------------------------------ states

Init ==
    /\ seed \in Seeds
    /\ steps \in StepCounts
    /\ temperature \in Temperatures
    /\ sample \in BOOLEAN
    /\ top_k \in TopKs
    /\ \E bs \in BlockSizes : block_size = bs - 1
    /\ x = seed
    /\ k = 0
    /\ x_cond = <<>>
    /\ raw = <<>>
    /\ scaled = <<>>
    /\ logits = <<>>
    /\ probs = <<>>
    /\ ix = <<>>
    /\ pc = "loop"
    /\ queries = 0
    /\ top_k_twin = <<>>
    /\ x_twin = <<>>

\* for k in range(steps): x_cond = ...
Crop ==
    /\ pc = "loop"
    /\ k < steps
    /\ x_cond' = CropContext(x, block_size)
    /\ pc' = "forward"
    /\ UNCHANGED <<config, x, k, raw, scaled, logits, probs, ix, queries>>

\* range(steps) is exhausted: return x
Return ==
    /\ pc = "loop"
    /\ k >= steps
    /\ pc' = "done"
    /\ UNCHANGED <<config, x, k, x_cond, raw, scaled, logits, probs, ix, queries>>

\* a forward call that is made a second time (a retry)
ForwardTwice ==
    /\ pc = "forward"
    /\ \E out \in PredictorOutputs : raw' = out
    /\ queries' = queries + 2
    /\ pc' = "scale"
    /\ UNCHANGED <<config, x, k, x_cond, scaled, logits, probs, ix>>

\* logits = model.local_forward(x_cond); logits = model.target_layer(...)
Forward ==
    /\ pc = "forward"
    /\ \E out \in PredictorOutputs : raw' = out
    /\ queries' = queries + 1
    /\ pc' = "scale"
    /\ UNCHANGED <<config, x, k, x_cond, scaled, logits, probs, ix>>

\* logits = logits[:, -1, :] / temperature
ScaleStep ==
    /\ pc = "scale"
    /\ scaled' = Scale(raw, temperature)
    /\ logits' = Scale(raw, temperature)
    /\ pc' = IF top_k # <<>> THEN "topk" ELSE "softmax"
    /\ UNCHANGED <<config, x, k, x_cond, raw, probs, ix, queries>>

\* if top_k is not None: logits = top_k_logits(logits, top_k)
TopK ==
    /\ pc = "topk"
    /\ IF TopKFails(logits, top_k[1])
         THEN /\ pc' = "error"
              /\ UNCHANGED logits
         ELSE /\ logits' = TopKLogits(logits, top_k[1])
              /\ pc' = "softmax"
    /\ UNCHANGED <<config, x, k, x_cond, raw, scaled, probs, ix, queries>>

\* probs = F.softmax(logits, dim=-1)
SoftmaxStep ==
    /\ pc = "softmax"
    /\ probs' = Softmax(logits)
    /\ pc' = "select"
    /\ UNCHANGED <<config, x, k, x_cond, raw, scaled, logits, ix, queries>>

\* ix = torch.multinomial(probs, num_samples=1)
SelectSample ==
    /\ pc = "select"
    /\ sample
    /\ IF MultinomialFails(probs)
         THEN /\ pc' = "error"
              /\ UNCHANGED ix
         ELSE /\ \E i \in MultinomialSupport(probs) : ix' = <<i - 1>>
              /\ pc' = "append"
    /\ UNCHANGED <<config, x, k, x_cond, raw, scaled, logits, probs, queries>>

\* _, ix = torch.topk(probs, k=1, dim=-1)
SelectTop ==
    /\ pc = "select"
    /\ ~sample
    /\ \E i \in ArgTopK1(probs) : ix' = <<i - 1>>
    /\ pc' = "append"
    /\ UNCHANGED <<config, x, k, x_cond, raw, scaled, logits, probs, queries>>

\* an append that keeps the sequence at the window: the oldest token goes
AppendStepSliding ==
    /\ pc = "append"
    /\ x' = SubSeq(x, 2, Len(x)) \o ix
    /\ k' = k + 1
    /\ pc' = "loop"
    /\ x_cond' = <<>>
    /\ raw' = <<>>
    /\ scaled' = <<>>
    /\ logits' = <<>>
    /\ probs' = <<>>
    /\ ix' = <<>>
    /\ UNCHANGED <<config, queries>>

\* x = torch.cat((x, ix), dim=1), and on to the next k.  The locals of the
\* loop body are dead from here on (each is assigned again before it is
\* read), so they are cleared instead of carried along.
AppendStep ==
    /\ pc = "append"
    /\ x' = x \o ix
    /\ k' = k + 1
    /\ pc' = "loop"
    /\ x_cond' = <<>>
    /\ raw' = <<>>
    /\ scaled' = <<>>
    /\ logits' = <<>>
    /\ probs' = <<>>
    /\ ix' = <<>>
    /\ UNCHANGED <<config, queries>>

Next ==
    \/ Crop
    \/ Return
    \/ Forward
    \/ ScaleStep
    \/ TopK
    \/ SoftmaxStep
    \/ SelectSample
    \/ SelectTop
    \/ AppendStep

Spec == Init /\ [][Next]_vars

\* ------------------------------------------- top_k_logits as a pure function
\* The scores top_k_logits is applied to: any vector of VocabSize floats,
\* the specials included, with any k it accepts.
FloatVals == ScoreVals \cup {NegInf, PosInf, NaN}

InitTopK ==
    /\ seed = <<1>>
    /\ steps = 1
    /\ temperature = 1
    /\ sample = FALSE
    /\ \E n \in 1..VocabSize : top_k = <<n>>
    /\ block_size = 1
    /\ x = seed
    /\ k = 0
    /\ x_cond = seed
    /\ raw \in [1..VocabSize -> FloatVals]
    /\ scaled = raw
    /\ logits = raw
    /\ probs = <<>>
    /\ ix = <<>>
    /\ pc = "topk"
    /\ queries = 1
    /\ top_k_twin = <<>>
    /\ x_twin = <<>>

NextTopK == TopK

SpecTopK == InitTopK /\ [][NextTopK]_vars

\* ----------------------------------------- two calls with the same arguments
\* sample(model, x, steps, temperature, sample=False, top_k) called twice on
\* the same model, the second time with the same top_k or with top_k=None.
\* The model is pure: the same context gets the same scores in both calls.
\* One step is one pass of both calls through the loop body.

\* the tokens one pass through the loop body may choose, sample=False
GreedyChoices(out, t, tk) ==
    LET sc == Scale(out, t)
        lg == IF tk # <<>> THEN TopKLogits(sc, tk[1]) ELSE sc
    IN {i - 1 : i \in ArgTopK1(Softmax(lg))}

InitTwin ==
    /\ seed \in Seeds
    /\ steps \in 0..MaxSteps
    /\ temperature \in {t \in Temperatures : t > 0}
    /\ sample = FALSE
    /\ top_k \in {tk \in TopKs : tk = <<>> \/ tk[1] \in 1..VocabSize}
    /\ top_k_twin \in {top_k, <<>>}
    /\ \E bs \in BlockSizes : bs >= 2 /\ block_size = bs - 1
    /\ x = seed
    /\ x_twin = seed
    /\ k = 0
    /\ x_cond = <<>>
    /\ raw = <<>>
    /\ scaled = <<>>
    /\ logits = <<>>
    /\ probs = <<>>
    /\ ix = <<>>
    /\ pc = "loop"
    /\ queries = 0

TwinStep ==
    /\ pc = "loop"
    /\ k < steps
    /\ \E out1 \in [1..VocabSize -> ScoreVals] :
        \E out2 \in IF CropContext(x, block_size)
                        = CropContext(x_twin, block_size)
                     THEN {out1} ELSE [1..VocabSize -> ScoreVals] :
          /\ \E t1 \in GreedyChoices(out1, temperature, top_k),
                t2 \in GreedyChoices(out2, temperature, top_k_twin) :
                /\ x' = Append(x, t1)
                /\ x_twin' = Append(x_twin, t2)
                /\ probs' = Softmax(IF top_k # <<>>
                                      THEN TopKLogits(Scale(out1, temperature),
                                                      top_k[1])
                                      ELSE Scale(out1, temperature))
    /\ k' = k + 1
    /\ queries' = queries + 1
    /\ UNCHANGED <<seed, steps, temperature, sample, top_k, block_size,
                   top_k_twin, x_cond, raw, scaled, logits, ix, pc>>

TwinReturn ==
    /\ pc = "loop"
    /\ k >= steps
    /\ pc' = "done"
    /\ UNCHANGED <<config, x, k, x_cond, raw, scaled, logits, probs, ix,
                   queries>>

NextTwin == TwinStep \/ TwinReturn

SpecTwin == InitTwin /\ [][NextTwin]_vars

\* ------------------------------------------------------------- vocabulary
\* of the properties below

Min(a, b) == IF a < b THEN a ELSE b

\* the configurations the data model allows
ValidConfig ==
    /\ temperature > 0
    /\ top_k = <<>> \/ top_k[1] \in 1..VocabSize
    /\ steps >= 0
    /\ block_size >= 1

\* a score vector the predictor is allowed to return
ValidScoreVector(v) ==
    Len(v) = VocabSize /\ \A i \in 1..Len(v) : IsFinite(v[i])

\* t is the n-th largest entry of v (in the order topk sorts by), by counting
IsKthLargest(v, n, t) ==
    /\ Cardinality({i \in 1..Len(v) : v[i] > t}) < n
    /\ n <= Cardinality({i \in 1..Len(v) : v[i] >= t})

KthLargest(v, n) ==
    CHOOSE t \in {v[i] : i \in 1..Len(v)} : IsKthLargest(v, n, t)

AllFinite(v) == \A i \in 1..Len(v) : IsFinite(v[i])

\* number of tokens appended so far
Appended == Len(x) - Len(seed)

\* ------------------------------------------------------------------ C1
\* C1: for every seed and every step count N >= 0 the sequence always is the
\* seed followed by one token per completed loop transition, the call returns
\* after exactly N transitions with a sequence of length len(seed) + N, and
\* every step either leaves the sequence alone or appends one token at its end.
C1_SeedPlusN ==
    /\ [](/\ Len(x) = Len(seed) + k
          /\ SubSeq(x, 1, Len(seed)) = seed
          /\ (steps >= 0 => k <= steps)
          /\ (pc = "done" /\ steps >= 0 =>
                 k = steps /\ Len(x) = Len(seed) + steps))
    /\ [][\/ x' = x
          \/ /\ Len(x') = Len(x) + 1
             /\ SubSeq(x', 1, Len(x)) = x
             /\ k' = k + 1]_vars

C1_Witness ==
    pc = "done" /\ steps = MaxSteps /\ Len(seed) = 2 /\ Appended = MaxSteps

\* ------------------------------------------------------------------ C2
\* C2: with a context limit >= 1, the context handed to the predictor is the
\* trailing slice of the current sequence of length min(len, limit), the whole
\* sequence when it is no longer than the limit, and cropping leaves the
\* sequence itself as it was.
C2_ContextIsTrailingSlice ==
    /\ [](pc = "forward" /\ block_size >= 1 =>
            /\ Len(x_cond) = Min(Len(x), block_size)
            /\ Len(x_cond) <= block_size
            /\ \A i \in 1..Len(x_cond) :
                  x_cond[i] = x[Len(x) - Len(x_cond) + i]
            /\ (Len(x) <= block_size => x_cond = x))
    /\ [][pc = "loop" /\ pc' = "forward" => x' = x]_vars

C2_Witness ==
    /\ pc = "forward"
    /\ block_size >= 1
    /\ k >= 1
    /\ Len(x) > block_size
    /\ x_cond # x

\* ------------------------------------------------------------------ C3
\* C3: with an invalid configuration (temperature <= 0, top_k outside [1, V],
\* steps < 0 or context limit <= 0) the call makes no predictor query, appends
\* no token and does not return normally.
C3_InvalidConfigRejected ==
    ~ValidConfig => queries = 0 /\ x = seed /\ pc # "done"

\* ------------------------------------------------------------------ C4
\* C4: with a step count N >= 0 the predictor has been queried once for every
\* token appended so far and once more while a transition is under way (the
\* query comes before the append), a call that returns has made exactly N
\* queries, and with N = 0 it made none and returns the seed.
C4_OneQueryPerTransition ==
    steps >= 0 =>
        /\ queries = IF pc \in {"loop", "forward", "done"}
                        THEN Appended ELSE Appended + 1
        /\ (pc = "append" => queries = k + 1)
        /\ (pc = "done" => queries = steps)
        /\ (pc = "done" /\ steps = 0 => queries = 0 /\ x = seed)

C4_Witness ==
    pc = "done" /\ steps = MaxSteps /\ queries = MaxSteps

\* ------------------------------------------------------------------ C5
\* p has an entry of positive probability
HasPositive(p) == \E i \in 1..Len(p) : ~IsNaN(p[i]) /\ p[i] > 0

\* C5: in a valid configuration no token is ever about to be appended from a
\* distribution without a positive-probability entry: the step fails instead,
\* in either mode.
C5_NoTokenFromEmptyDistribution ==
    (ValidConfig /\ pc = "append") => HasPositive(probs)

\* ------------------------------------------------------------------ C6
\* C6: in a valid configuration the loop never goes on to normalise, select or
\* append after the predictor returned an invalid score vector (wrong length
\* or non-finite entries): the call aborts at that step.
C6_InvalidScoresAbort ==
    (ValidConfig /\ pc \in {"softmax", "select", "append"})
        => ValidScoreVector(raw)

\* ------------------------------------------------------------------ C7
\* C7: top_k_logits with 1 <= k <= V sets exactly the entries strictly below
\* the k-th largest score v_k to negative infinity and keeps every other
\* entry (ties at v_k included); when v_k occurs once and the scores >= v_k
\* are finite, exactly k entries stay finite; the input tensor is untouched.
C7_TopKTruncation ==
    /\ [](pc = "softmax" =>
            LET n == top_k[1]
                vk == KthLargest(scaled, n)
            IN /\ Len(logits) = Len(scaled)
               /\ \A i \in 1..Len(scaled) :
                     /\ Less(scaled[i], vk) => logits[i] = NegInf
                     /\ ~Less(scaled[i], vk) => logits[i] = scaled[i]
               /\ (/\ Cardinality({i \in 1..Len(scaled) : scaled[i] = vk}) = 1
                   /\ \A i \in 1..Len(scaled) :
                         scaled[i] >= vk => IsFinite(scaled[i]))
                  => Cardinality({i \in 1..Len(logits) : IsFinite(logits[i])}) = n)
    /\ [][scaled' = scaled]_vars

\* a tie at v_k is retained (more than k candidates) while a lower score goes
C7_Witness ==
    /\ pc = "softmax"
    /\ AllFinite(scaled)
    /\ Cardinality({i \in 1..Len(logits) : IsFinite(logits[i])}) > top_k[1]
    /\ \E i \in 1..Len(logits) : logits[i] = NegInf

\* ------------------------------------------------------------------ C8
\* the lowest index among the largest entries of p
LowestArgMax(p) ==
    CHOOSE i \in 1..Len(p) :
        /\ \A j \in 1..Len(p) : p[j] <= p[i]
        /\ \A j \in 1..(i - 1) : p[j] < p[i]

\* C8: with sample=False every step appends the largest-probability token of
\* lowest vocabulary index, and two calls with identical arguments return
\* identical sequences.
C8_DeterministicReproducible ==
    /\ (k >= 1 => x[Len(x)] = LowestArgMax(probs) - 1)
    /\ (pc = "done" /\ top_k_twin = top_k => x_twin = x)

\* ------------------------------------------------------------------ C9
\* C9: with sample=False a call with top_k set returns the same sequence as
\* the call with top_k unset and otherwise the same arguments.
C9_TopKKeepsGreedyResult ==
    (pc = "done" /\ top_k # <<>> /\ top_k_twin = <<>>) => x_twin = x

\* ------------------------------------------------------------------ C10
\* C10: with top_k set and finite scaled scores, the token about to be
\* appended, in either mode and at every step, has a scaled score that is not
\* below the k-th largest scaled score.
C10_TokenWithinTopK ==
    (pc = "append" /\ top_k # <<>> /\ AllFinite(scaled)) =>
        ~Less(scaled[ix[1] + 1], KthLargest(scaled, top_k[1]))

C10_Witness ==
    /\ pc = "append"
    /\ sample
    /\ top_k = <<2>>
    /\ k >= 1
    /\ AllFinite(scaled)
    /\ \E i \in 1..Len(logits) : logits[i] = NegInf

====
